---- MODULE Spec2Model ----
(***************************************************************************)
(* DocumentationGenerator.py: main() walks the repository, keeps the files *)
(* with extension .sql/.sh/.php, and for each of them reads the content,   *)
(* asks the remote service for a documentation page, scans the content for *)
(* references, and saves the page next to the source; it then writes       *)
(* PROJECT_OVERVIEW.md.                                                    *)
(*                                                                         *)
(* A Python str is a sequence of fragments.  Paths are spelled character   *)
(* by character (every fragment has length 1) because splitext, basename,  *)
(* dirname, lower and sorted look at their characters; fixed literals of   *)
(* the source that are only ever copied ("**Documentation**") are one      *)
(* fragment.                                                               *)
(***************************************************************************)
EXTENDS Integers, Sequences, FiniteSets, TLC

VARIABLES
    tree,             \* the source files of the repository, in os.walk order
    disk,             \* generated files: path -> text (doc files, overview)
    run,              \* number of the current invocation of main()
    pc,               \* position of main()
    all_files,        \* main: all_files
    relevant_files,   \* main: relevant_files
    idx,              \* main: position of the for loop in relevant_files
    step,             \* main: next statement of the try block
    content,          \* main: content
    doc_text,         \* main: doc_text
    file_docs,        \* main: file_docs (dict, insertion ordered)
    file_references,  \* main: file_references (dict, insertion ordered)
    overview_text,    \* main: overview_text
    requested,        \* history: file paths sent to the service in this run
    attempted,        \* history: file paths whose loop body started in this run
    outcome,          \* history: file path -> how its loop body ended in this run
    written,          \* history: <<source, output path>> of the doc files written in this run
    overview_writes   \* history: overview files written in this run

vars == <<tree, disk, run, pc, all_files, relevant_files, idx, step, content,
          doc_text, file_docs, file_references, overview_text, requested,
          attempted, outcome, written, overview_writes>>

\* Bounds of the model.
MaxFiles == 2
MaxRuns == 2
MaxKeys == 2

-----------------------------------------------------------------------------
(* Characters and strings *)

\* The characters of code points 32..95, in code point order.
AsciiPunctUpper ==
    <<" ", "!", "\"", "#", "$", "%", "&", "'", "(", ")", "*", "+", ",", "-", ".", "/",
      "0", "1", "2", "3", "4", "5", "6", "7", "8", "9", ":", ";", "<", "=", ">", "?",
      "@", "A", "B", "C", "D", "E", "F", "G", "H", "I", "J", "K", "L", "M", "N", "O",
      "P", "Q", "R", "S", "T", "U", "V", "W", "X", "Y", "Z", "[", "\\", "]", "^", "_">>

\* The characters of code points 97..122, in code point order.
AsciiLower ==
    <<"a", "b", "c", "d", "e", "f", "g", "h", "i", "j", "k", "l", "m",
      "n", "o", "p", "q", "r", "s", "t", "u", "v", "w", "x", "y", "z">>

Chars ==
    {AsciiPunctUpper[i] : i \in 1..Len(AsciiPunctUpper)}
        \cup {AsciiLower[i] : i \in 1..Len(AsciiLower)}

\* The code point of each character of the two tables.
CodePoint ==
    [c \in Chars |->
        IF \E i \in 1..Len(AsciiLower) : AsciiLower[i] = c
        THEN 96 + (CHOOSE i \in 1..Len(AsciiLower) : AsciiLower[i] = c)
        ELSE 31 + (CHOOSE i \in 1..Len(AsciiPunctUpper) : AsciiPunctUpper[i] = c)]

\* ord(c)
Ord(c) == CodePoint[c]

\* str.lower() on one character: "A".."Z" (65..90) map to "a".."z".
LowerChar(c) ==
    IF Ord(c) >= 65 /\ Ord(c) <= 90 THEN AsciiLower[Ord(c) - 64] ELSE c

\* str.lower()
lower(s) == [i \in 1..Len(s) |-> LowerChar(s[i])]

\* str.rfind(c), 1-based; 0 when c does not occur.
RFind(s, c) ==
    LET hits == {i \in 1..Len(s) : s[i] = c}
    IN  IF hits = {} THEN 0 ELSE CHOOSE i \in hits : \A j \in hits : j <= i

Whitespace == {" ", "\n", "\t", "\r"}

\* str.strip()
strip(s) ==
    LET keep == {i \in 1..Len(s) : s[i] \notin Whitespace}
    IN  IF keep = {} THEN <<>>
        ELSE LET lo == CHOOSE i \in keep : \A j \in keep : i <= j
                 hi == CHOOSE i \in keep : \A j \in keep : j <= i
             IN  SubSeq(s, lo, hi)

\* a < b for Python str (lexicographic by code point).
StrLess(a, b) ==
    \E i \in 1..(Len(a) + 1) :
        /\ \A j \in 1..(i - 1) : j <= Len(b) /\ a[j] = b[j]
        /\ i <= Len(b)
        /\ (i > Len(a) \/ Ord(a[i]) < Ord(b[i]))

RECURSIVE InsertSorted(_, _)
InsertSorted(s, x) ==
    IF s = <<>> THEN <<x>>
    ELSE IF StrLess(x, Head(s)) THEN <<x>> \o s
    ELSE <<Head(s)>> \o InsertSorted(Tail(s), x)

\* sorted(list of str)
RECURSIVE sorted(_)
sorted(s) ==
    IF s = <<>> THEN <<>>
    ELSE CHOOSE r \in {InsertSorted(rest, Head(s)) : rest \in {sorted(Tail(s))}} : TRUE

\* sep.join(lines)
RECURSIVE join(_, _)
join(sep, lines) ==
    IF lines = <<>> THEN <<>>
    ELSE IF Len(lines) = 1 THEN lines[1]
    ELSE lines[1] \o <<sep>> \o join(sep, Tail(lines))

\* x in list
InList(x, s) == \E i \in 1..Len(s) : s[i] = x

-----------------------------------------------------------------------------
(* os.path *)

\* os.path.splitext(p): <<root, ext>>; leading dots of the file name are no extension.
splitext(p) ==
    LET sepIndex == RFind(p, "/")
        dotIndex == RFind(p, ".")
    IN  IF /\ dotIndex > sepIndex
           /\ \E i \in (sepIndex + 1)..(dotIndex - 1) : p[i] # "."
        THEN <<SubSeq(p, 1, dotIndex - 1), SubSeq(p, dotIndex, Len(p))>>
        ELSE <<p, <<>>>>

\* os.path.basename(p)
basename(p) == SubSeq(p, RFind(p, "/") + 1, Len(p))

RECURSIVE RStripSep(_)
RStripSep(s) ==
    IF s # <<>> /\ s[Len(s)] = "/" THEN RStripSep(SubSeq(s, 1, Len(s) - 1)) ELSE s

\* os.path.dirname(p)
dirname(p) ==
    LET head == SubSeq(p, 1, RFind(p, "/"))
    IN  IF head # <<>> /\ \E i \in 1..Len(head) : head[i] # "/"
        THEN RStripSep(head) ELSE head

\* os.path.join(a, b)
path_join(a, b) ==
    IF b # <<>> /\ b[1] = "/" THEN b
    ELSE IF a = <<>> \/ a[Len(a)] = "/" THEN a \o b
    ELSE a \o <<"/">> \o b

-----------------------------------------------------------------------------
(* Configuration *)

LOCAL_REPO_PATH == <<".", "/">>

FILE_EXTENSIONS == << <<".", "s", "q", "l">>, <<".", "s", "h">>, <<".", "p", "h", "p">> >>

OVERVIEW_FILENAME ==
    <<"P", "R", "O", "J", "E", "C", "T", "_", "O", "V", "E", "R", "V", "I", "E", "W", ".", "m", "d">>

DOC_SUFFIX == <<"_", "d", "o", "c", ".", "t", "x", "t">>

\* Python's state of a local variable before its first assignment.
Unbound == <<>>

-----------------------------------------------------------------------------
(* dict: a sequence of <<key, value>> pairs with distinct keys, in insertion order *)

\* list(d.keys())
DictKeys(d) == [i \in 1..Len(d) |-> d[i][1]]

\* k in d
DictHas(d, k) == \E i \in 1..Len(d) : d[i][1] = k

\* d.get(k, default)
DictGet(d, k, default) ==
    IF DictHas(d, k) THEN d[CHOOSE i \in 1..Len(d) : d[i][1] = k][2] ELSE default

\* d[k] = v
DictSet(d, k, v) ==
    IF DictHas(d, k)
    THEN [i \in 1..Len(d) |-> IF d[i][1] = k THEN <<k, v>> ELSE d[i]]
    ELSE Append(d, <<k, v>>)

-----------------------------------------------------------------------------
(* The repository under LOCAL_REPO_PATH and the remote service *)

A_SQL == <<".", "/", "a", ".", "s", "q", "l">>
A_PHP == <<".", "/", "a", ".", "p", "h", "p">>
C_TXT == <<".", "/", "c", ".", "t", "x", "t">>
E_SH_UPPER == <<".", "/", "d", "/", "e", ".", "S", "H">>
DOT_SQL == <<".", "/", ".", "s", "q", "l">>

\* The source files a repository may hold.
Paths == {A_SQL, A_PHP, E_SH_UPPER, C_TXT, DOT_SQL}

\* File content, as the statements the two regular expressions tell apart:
\* kw "include"/"require"/"include_once"/"require_once" with a quoted argument
\* (PHP_INCLUDE_PATTERN), kw "\\i" with a token (SQL_INCLUDE_PATTERN), other text.
Stmt(kw, arg) == [kw |-> kw, arg |-> arg]

FileContent(path) ==
    IF path = A_SQL THEN <<Stmt("\\i", <<"seed_data.sql">>), Stmt("include", <<"x.php">>)>>
    ELSE IF path = A_PHP
    THEN <<Stmt("include", <<"a/b.php">>), Stmt("text", <<"echo 1;">>),
           Stmt("require_once", <<"c.php">>), Stmt("\\i", <<"z.sql">>)>>
    ELSE IF path = E_SH_UPPER THEN <<Stmt("include", <<"lib.sh">>)>>
    ELSE <<Stmt("text", <<"select 1;">>)>>

\* The text the service returns for the request of file_path in invocation n of
\* main(): a fresh text for every request, with whitespace around it.
ServiceReply(file_path, n) ==
    <<" ", "Doc for ">> \o file_path \o <<", reply ", ToString(n), "\n">>

-----------------------------------------------------------------------------
(* Helper functions *)

\* save_file_in_same_directory: output_file_path
OutputPath(original_file_path) ==
    LET base_dir == dirname(original_file_path)
        base_name == splitext(basename(original_file_path))[1]
    IN  path_join(base_dir, base_name \o DOC_SUFFIX)

\* main: overview_path
OverviewPath == path_join(LOCAL_REPO_PATH, OVERVIEW_FILENAME)

PhpKeywords == {"include", "require", "include_once", "require_once"}

RECURSIVE ArgsOf(_, _)
ArgsOf(stmts, kws) ==
    IF stmts = <<>> THEN <<>>
    ELSE (IF Head(stmts).kw \in kws THEN <<Head(stmts).arg>> ELSE <<>>)
         \o ArgsOf(Tail(stmts), kws)

find_references_in_content(file_path, text) ==
    LET ext == lower(splitext(file_path)[2])
    IN  IF ext = <<".", "p", "h", "p">> THEN ArgsOf(text, PhpKeywords)
        ELSE IF ext = <<".", "s", "q", "l">> THEN ArgsOf(text, {"\\i"})
        ELSE <<>>

RECURSIVE RefLines(_)
RefLines(refs) ==
    IF refs = <<>> THEN <<>> ELSE <<<<"- ">> \o Head(refs)>> \o RefLines(Tail(refs))

\* The lines one iteration of the loop of generate_overview_document appends.
SectionLines(path, docs, references) ==
    LET doc == DictGet(docs, path, <<>>)
        refs == DictGet(references, path, <<>>)
    IN  << <<"## ">> \o path, <<>>, <<"**Documentation**">>, <<>>, strip(doc), <<>> >>
        \o (IF refs # <<>>
            THEN << <<"**References / Includes**">>, <<>> >> \o RefLines(refs) \o << <<>> >>
            ELSE <<>>)

RECURSIVE SectionsOf(_, _, _)
SectionsOf(keys, docs, references) ==
    IF keys = <<>> THEN <<>>
    ELSE SectionLines(Head(keys), docs, references)
         \o SectionsOf(Tail(keys), docs, references)

OverviewHeader ==
    << <<"# Project Overview">>, <<>>,
       <<"This document provides a high-level summary of the codebase, including file-by-file documentation and references.">>,
       <<>> >>

\* OverviewOrder without sorted(): the keys in insertion order.
OverviewOrder_Insertion(docs) == DictKeys(docs)

\* for path in sorted(file_docs.keys())
OverviewOrder(docs) == sorted(DictKeys(docs))

\* keys and lines are bound as values (the singleton sets), as Python binds
\* the result of sorted() and the list lines.
generate_overview_document(docs, references) ==
    CHOOSE text \in
        {join("\n", lines) :
            lines \in {OverviewHeader \o SectionsOf(keys, docs, references) :
                          keys \in {OverviewOrder(docs)}}} : TRUE

\* IsRelevant without .lower(): the extension is compared as spelled.
IsRelevant_CaseSensitive(f) == InList(splitext(f)[2], FILE_EXTENSIONS)

\* The test of the list comprehension that builds relevant_files.
IsRelevant(f) == InList(lower(splitext(f)[2]), FILE_EXTENSIONS)

\* acc followed by the items of s that are not yet in it, each once.
RECURSIVE Dedup(_, _)
Dedup(acc, s) ==
    IF s = <<>> THEN acc
    ELSE Dedup(IF InList(Head(s), acc) THEN acc ELSE Append(acc, Head(s)), Tail(s))

OnDisk(p) == p \in DOMAIN disk

\* traverse_local_files(LOCAL_REPO_PATH): the source files, then the files
\* earlier invocations generated.
traverse_local_files ==
    CHOOSE file_list \in
        {tree \o SelectSeq(Dedup(<<>>, generated), OnDisk) :
            generated \in {[i \in 1..Len(tree) |-> OutputPath(tree[i])] \o <<OverviewPath>>}} :
        TRUE

-----------------------------------------------------------------------------
(* main() *)

EmptyMap == [p \in {} |-> <<>>]

Terminal == {"Done", "EarlyExit", "Aborted"}

\* Sequences of distinct source files, at most MaxFiles long.
Listings ==
    {s \in UNION {[1..n -> Paths] : n \in 0..MaxFiles} :
        \A i, j \in 1..Len(s) : i # j => s[i] # s[j]}

\* The state at the call of main(): nothing generated yet.
Init ==
    /\ tree \in Listings
    /\ disk = EmptyMap
    /\ run = 1
    /\ pc = "Walking"
    /\ all_files = <<>>
    /\ relevant_files = <<>>
    /\ idx = 0
    /\ step = "read"
    /\ content = Unbound
    /\ doc_text = Unbound
    /\ file_docs = <<>>
    /\ file_references = <<>>
    /\ overview_text = Unbound
    /\ requested = <<>>
    /\ attempted = <<>>
    /\ outcome = EmptyMap
    /\ written = <<>>
    /\ overview_writes = 0

\* main: file_path of the current iteration
file_path == relevant_files[idx]

\* all_files = traverse_local_files(LOCAL_REPO_PATH)
Walk ==
    /\ pc = "Walking"
    /\ all_files' = traverse_local_files
    /\ pc' = "Filtering"
    /\ UNCHANGED <<tree, disk, run, relevant_files, idx, step, content, doc_text,
                   file_docs, file_references, overview_text, requested, attempted,
                   outcome, written, overview_writes>>

\* Filter without the early return: an empty list falls through the loop.
Filter_NoEarlyReturn ==
    /\ pc = "Filtering"
    /\ relevant_files' = SelectSeq(all_files, IsRelevant)
    /\ pc' = IF relevant_files' = <<>> THEN "Assembling" ELSE "Processing"
    /\ idx' = 1
    /\ step' = "read"
    /\ file_docs' = <<>>
    /\ file_references' = <<>>
    /\ UNCHANGED <<tree, disk, run, all_files, content, doc_text, overview_text,
                   requested, attempted, outcome, written, overview_writes>>

\* relevant_files = [...]; if not relevant_files: return; file_docs = {};
\* file_references = {}
Filter ==
    /\ pc = "Filtering"
    /\ relevant_files' = SelectSeq(all_files, IsRelevant)
    /\ IF relevant_files' = <<>>
       THEN pc' = "EarlyExit" /\ idx' = idx
       ELSE pc' = "Processing" /\ idx' = 1
    /\ step' = "read"
    /\ file_docs' = <<>>
    /\ file_references' = <<>>
    /\ UNCHANGED <<tree, disk, run, all_files, content, doc_text, overview_text,
                   requested, attempted, outcome, written, overview_writes>>

\* The end of one iteration of the for loop: the next file, or the statements
\* after the loop.
Advance ==
    /\ idx' = idx + 1
    /\ step' = "read"
    /\ pc' = IF idx = Len(relevant_files) THEN "Assembling" ELSE "Processing"

\* Except with the try block around the loop: the first exception ends the loop.
Except_Break(reason) ==
    /\ outcome' = (file_path :> reason) @@ outcome
    /\ idx' = idx + 1
    /\ step' = "read"
    /\ pc' = "Assembling"

\* except Exception as e: print(...)
Except(reason) ==
    /\ outcome' = (file_path :> reason) @@ outcome
    /\ Advance

\* content = read_file_content(file_path) returns
ReadOk ==
    /\ pc = "Processing" /\ step = "read"
    /\ attempted' = Append(attempted, file_path)
    /\ content' = FileContent(file_path)
    /\ step' = "request"
    /\ UNCHANGED <<tree, disk, run, pc, all_files, relevant_files, idx, doc_text,
                   file_docs, file_references, overview_text, requested, outcome,
                   written, overview_writes>>

\* read_file_content(file_path) raises
ReadFail ==
    /\ pc = "Processing" /\ step = "read"
    /\ attempted' = Append(attempted, file_path)
    /\ Except("read_failed")
    /\ UNCHANGED <<tree, disk, run, all_files, relevant_files, content, doc_text,
                   file_docs, file_references, overview_text, requested, written,
                   overview_writes>>

\* RequestOk with a cache: a file whose doc file is on disk is not requested again.
RequestOk_Cached ==
    /\ pc = "Processing" /\ step = "request"
    /\ IF OutputPath(file_path) \in DOMAIN disk
       THEN /\ requested' = requested
            /\ doc_text' = disk[OutputPath(file_path)]
       ELSE /\ requested' = Append(requested, file_path)
            /\ doc_text' = ServiceReply(file_path, run)
    /\ file_docs' = DictSet(file_docs, file_path, doc_text')
    /\ step' = "scan"
    /\ UNCHANGED <<tree, disk, run, pc, all_files, relevant_files, idx, content,
                   file_references, overview_text, attempted, outcome, written,
                   overview_writes>>

\* doc_text = generate_documentation_with_openai(file_path, content) returns;
\* file_docs[file_path] = doc_text
RequestOk ==
    /\ pc = "Processing" /\ step = "request"
    /\ requested' = Append(requested, file_path)
    /\ doc_text' = ServiceReply(file_path, run)
    /\ file_docs' = DictSet(file_docs, file_path, doc_text')
    /\ step' = "scan"
    /\ UNCHANGED <<tree, disk, run, pc, all_files, relevant_files, idx, content,
                   file_references, overview_text, attempted, outcome, written,
                   overview_writes>>

\* RequestFail with file_docs[file_path] assigned before the call returns.
RequestFail_KeepsEntry ==
    /\ pc = "Processing" /\ step = "request"
    /\ requested' = Append(requested, file_path)
    /\ file_docs' = DictSet(file_docs, file_path, <<>>)
    /\ Except("request_failed")
    /\ UNCHANGED <<tree, disk, run, all_files, relevant_files, content, doc_text,
                   file_references, overview_text, attempted, written, overview_writes>>

\* generate_documentation_with_openai(file_path, content) raises: the post, the
\* status or the shape of the response
RequestFail ==
    /\ pc = "Processing" /\ step = "request"
    /\ requested' = Append(requested, file_path)
    /\ Except("request_failed")
    /\ UNCHANGED <<tree, disk, run, all_files, relevant_files, content, doc_text,
                   file_docs, file_references, overview_text, attempted, written,
                   overview_writes>>

\* Scan without the assignment to file_references.
Scan_NoStore ==
    /\ pc = "Processing" /\ step = "scan"
    /\ step' = "save"
    /\ UNCHANGED <<tree, disk, run, pc, all_files, relevant_files, idx, content,
                   doc_text, file_docs, file_references, overview_text, requested,
                   attempted, outcome, written, overview_writes>>

\* refs = find_references_in_content(file_path, content);
\* file_references[file_path] = refs
\* (re.findall with a fixed pattern over the text just read does not raise)
Scan ==
    /\ pc = "Processing" /\ step = "scan"
    /\ file_references' =
           DictSet(file_references, file_path, find_references_in_content(file_path, content))
    /\ step' = "save"
    /\ UNCHANGED <<tree, disk, run, pc, all_files, relevant_files, idx, content,
                   doc_text, file_docs, overview_text, requested, attempted, outcome,
                   written, overview_writes>>

\* save_file_in_same_directory(file_path, doc_text) returns
SaveOk ==
    /\ pc = "Processing" /\ step = "save"
    /\ disk' = (OutputPath(file_path) :> doc_text) @@ disk
    /\ written' = Append(written, <<file_path, OutputPath(file_path)>>)
    /\ outcome' = (file_path :> "ok") @@ outcome
    /\ Advance
    /\ UNCHANGED <<tree, run, all_files, relevant_files, content, doc_text, file_docs,
                   file_references, overview_text, requested, attempted, overview_writes>>

\* save_file_in_same_directory(file_path, doc_text) raises (makedirs or open):
\* nothing is written
SaveFail ==
    /\ pc = "Processing" /\ step = "save"
    /\ Except("save_failed")
    /\ UNCHANGED <<tree, disk, run, all_files, relevant_files, content, doc_text,
                   file_docs, file_references, overview_text, requested, attempted,
                   written, overview_writes>>

\* overview_text = generate_overview_document(...); the overview file is written
AssembleOk ==
    /\ pc = "Assembling"
    /\ overview_text' = generate_overview_document(file_docs, file_references)
    /\ disk' = (OverviewPath :> overview_text') @@ disk
    /\ overview_writes' = overview_writes + 1
    /\ pc' = "Done"
    /\ UNCHANGED <<tree, run, all_files, relevant_files, idx, step, content, doc_text,
                   file_docs, file_references, requested, attempted, outcome, written>>

\* overview_text = generate_overview_document(...); open(overview_path, "w")
\* raises, outside every try block
AssembleFail ==
    /\ pc = "Assembling"
    /\ overview_text' = generate_overview_document(file_docs, file_references)
    /\ pc' = "Aborted"
    /\ UNCHANGED <<tree, disk, run, all_files, relevant_files, idx, step, content,
                   doc_text, file_docs, file_references, requested, attempted, outcome,
                   written, overview_writes>>

\* The script is started again on the same repository.
Restart ==
    /\ pc \in Terminal
    /\ run < MaxRuns
    /\ run' = run + 1
    /\ pc' = "Walking"
    /\ all_files' = <<>>
    /\ relevant_files' = <<>>
    /\ idx' = 0
    /\ step' = "read"
    /\ content' = Unbound
    /\ doc_text' = Unbound
    /\ file_docs' = <<>>
    /\ file_references' = <<>>
    /\ overview_text' = Unbound
    /\ requested' = <<>>
    /\ attempted' = <<>>
    /\ outcome' = EmptyMap
    /\ written' = <<>>
    /\ overview_writes' = 0
    /\ UNCHANGED <<tree, disk>>

\* The steps of one invocation of main().
MainStep ==
    \/ Walk
    \/ Filter
    \/ ReadOk
    \/ ReadFail
    \/ RequestOk
    \/ RequestFail
    \/ Scan
    \/ SaveOk
    \/ SaveFail
    \/ AssembleOk
    \/ AssembleFail

Next ==
    \/ MainStep
    \/ Restart

Spec == Init /\ [][Next]_vars

\* One invocation of main(). It is one sequential thread: while a statement
\* is left, it runs (every blocking call returns or raises).
FairSpec == Init /\ [][MainStep]_vars /\ WF_vars(MainStep)

-----------------------------------------------------------------------------
(* generate_overview_document as a function of arbitrary mappings *)

B_SQL_UPPER == <<".", "/", "B", ".", "S", "Q", "L">>

OverviewKeys == {A_SQL, A_PHP, B_SQL_UPPER}

DocTexts == {<<" ", "Doc", "\n">>, <<"Other", " ", "doc">>}

RefLists == {<<>>, << <<"c.php">> >>, << <<"a/b.php">>, <<"c.php">> >>}

\* The dicts with at most MaxKeys keys and values in vals, in every insertion order.
DictsOver(vals) ==
    {d \in UNION {[1..n -> OverviewKeys \X vals] : n \in 0..MaxKeys} :
        \A i, j \in 1..Len(d) : i # j => d[i][1] # d[j][1]}

InitOverview ==
    /\ file_docs \in DictsOver(DocTexts)
    /\ file_references \in DictsOver(RefLists)
    /\ pc = "Call"
    /\ overview_text = Unbound
    /\ tree = <<>>
    /\ disk = EmptyMap
    /\ run = 1
    /\ all_files = <<>>
    /\ relevant_files = <<>>
    /\ idx = 0
    /\ step = "read"
    /\ content = Unbound
    /\ doc_text = Unbound
    /\ requested = <<>>
    /\ attempted = <<>>
    /\ outcome = EmptyMap
    /\ written = <<>>
    /\ overview_writes = 0

\* overview_text = generate_overview_document(file_docs, file_references)
CallOverview ==
    /\ pc = "Call"
    /\ overview_text' = generate_overview_document(file_docs, file_references)
    /\ pc' = "Returned"
    /\ UNCHANGED <<tree, disk, run, all_files, relevant_files, idx, step, content,
                   doc_text, file_docs, file_references, requested, attempted, outcome,
                   written, overview_writes>>

NextOverview == CallOverview

SpecOverview == InitOverview /\ [][NextOverview]_vars

-----------------------------------------------------------------------------
(* Reading states and overview texts *)

Keys(d) == {d[i][1] : i \in 1..Len(d)}

Range(s) == {s[i] : i \in 1..Len(s)}

Count(s, x) == Cardinality({i \in 1..Len(s) : s[i] = x})

IsPrefix(s, t) == Len(s) <= Len(t) /\ \A i \in 1..Len(s) : s[i] = t[i]

\* text.split("\n")
RECURSIVE SplitLines(_)
SplitLines(text) ==
    IF \A i \in 1..Len(text) : text[i] # "\n" THEN <<text>>
    ELSE LET n == CHOOSE i \in 1..Len(text) :
                      text[i] = "\n" /\ \A j \in 1..(i - 1) : text[j] # "\n"
         IN  <<SubSeq(text, 1, n - 1)>> \o SplitLines(SubSeq(text, n + 1, Len(text)))

IsHeading(line) == line # <<>> /\ line[1] = "## "

\* The paths of the section headings of an overview text, in the order of the text.
RECURSIVE HeadingsOf(_)
HeadingsOf(lines) ==
    IF lines = <<>> THEN <<>>
    ELSE (IF IsHeading(Head(lines)) THEN <<Tail(Head(lines))>> ELSE <<>>)
         \o HeadingsOf(Tail(lines))

OverviewSections(text) == HeadingsOf(SplitLines(text))

\* The section of path in an overview text carries a "References / Includes" list.
SectionHasReferences(text, path) ==
    LET lines == SplitLines(text)
    IN  \E h, r \in 1..Len(lines) :
            /\ lines[h] = <<"## ">> \o path
            /\ h < r
            /\ lines[r] = <<"**References / Includes**">>
            /\ \A m \in (h + 1)..r : ~IsHeading(lines[m])

\* The text of an overview without any section.
TitleAndIntro == join("\n", OverviewHeader)

\* The files of this run whose loop body ended in the except branch.
FailedFiles == {f \in DOMAIN outcome : outcome[f] # "ok"}

\* The files of this run for which the service returned a text.
AnsweredFiles == {f \in DOMAIN outcome : outcome[f] \in {"ok", "save_failed"}}

LoopOver == pc \in {"Assembling", "Done", "Aborted"}

-----------------------------------------------------------------------------
(* Claims *)

\* C1: when the overview is assembled, a file one of whose four processing
\* steps (read, request, scan, write) raised is a key of neither file_docs nor
\* file_references.
C1_FailedFileInNeitherMapping ==
    LoopOver =>
        \A f \in FailedFiles : f \notin Keys(file_docs) /\ f \notin Keys(file_references)

\* C2: when the request fails for X and succeeds for Y, whatever their order,
\* every file after X is still processed and the overview written at the end
\* of the run has a section for Y and none for X.
C2_RequestFailureIsolated ==
    /\ \A f \in DOMAIN outcome : outcome[f] = "request_failed" => f \notin Keys(file_docs)
    /\ LoopOver => \A i \in 1..Len(relevant_files) : relevant_files[i] \in DOMAIN outcome
    /\ pc = "Done" =>
           \A X, Y \in Range(relevant_files) :
               (outcome[X] = "request_failed" /\ Y \in AnsweredFiles) =>
                   /\ Count(OverviewSections(disk[OverviewPath]), Y) = 1
                   /\ Count(OverviewSections(disk[OverviewPath]), X) = 0

\* C2 witness: a finished run in which the request of an earlier file failed
\* and the request of a later file succeeded.
C2_Witness ==
    /\ pc = "Done"
    /\ \E i, j \in 1..Len(relevant_files) :
           /\ i < j
           /\ outcome[relevant_files[i]] = "request_failed"
           /\ outcome[relevant_files[j]] = "ok"
           /\ OverviewSections(disk[OverviewPath]) = <<relevant_files[j]>>

\* C3: a run whose filtered list is empty ends early, with no request sent, no
\* doc file written and no overview written.
C3_EmptyListEndsEarly ==
    (pc \notin {"Walking", "Filtering"} /\ relevant_files = <<>>) =>
        /\ pc = "EarlyExit"
        /\ requested = <<>>
        /\ written = <<>>
        /\ overview_writes = 0
        /\ attempted = <<>>

\* C3 witness: files were walked, none is relevant, and main() has returned.
C3_Witness == pc = "EarlyExit" /\ Len(all_files) = 2 /\ relevant_files = <<>>

\* The extension of f, lower-cased.
LowerExt(f) == lower(splitext(f)[2])

\* C4: a file whose lower-cased extension is not in the allow-list is never
\* requested and never a key of either mapping; a walked file whose extension
\* is in the allow-list in any letter case is relevant.
C4_OnlyAllowListedExtensions ==
    /\ \A f \in Range(requested) \cup Keys(file_docs) \cup Keys(file_references) :
           LowerExt(f) \in Range(FILE_EXTENSIONS)
    /\ pc \notin {"Walking", "Filtering"} =>
           \A i \in 1..Len(all_files) :
               LowerExt(all_files[i]) \in Range(FILE_EXTENSIONS)
                   <=> all_files[i] \in Range(relevant_files)

\* C4 witness: a file with an upper-case extension is documented in a run that
\* also walked a file that is not relevant.
C4_Witness ==
    /\ E_SH_UPPER \in Keys(file_docs)
    /\ E_SH_UPPER \in Range(requested)
    /\ \E i \in 1..Len(all_files) : all_files[i] \notin Range(relevant_files)

\* C5: in a run with a non-empty relevant list the overview is written at
\* most once, only after every relevant file was attempted, exactly once when
\* the run is done, whatever the per-file outcomes; when every file failed it
\* holds the title and intro and no section.
C5_OverviewWrittenOnce ==
    /\ overview_writes <= 1
    /\ overview_writes = 1 => attempted = relevant_files /\ relevant_files # <<>>
    /\ pc = "Done" => overview_writes = 1
    /\ (pc = "Done" /\ FailedFiles = Range(relevant_files)) =>
           /\ disk[OverviewPath] = TitleAndIntro
           /\ OverviewSections(disk[OverviewPath]) = <<>>

\* C6: at the end of a run, every successfully processed source file has its
\* own doc file <directory>/<base name>_doc.txt holding the text generated for
\* it, also when two sources of one directory share a base name.
C6_OneDocFilePerSource ==
    LoopOver =>
        \A f \in DOMAIN outcome :
            outcome[f] = "ok" =>
                /\ OutputPath(f) \in DOMAIN disk
                /\ disk[OutputPath(f)] = DictGet(file_docs, f, Unbound)

\* C7: in one run the service gets at most one request per relevant file,
\* exactly one for each file that was read, none for a file whose read failed,
\* and a failed request is not repeated; a later run requests every file
\* again, whatever earlier runs left on disk.
C7_OneRequestPerReadFile ==
    /\ \A f \in Range(requested) : Count(requested, f) = 1 /\ f \in Range(relevant_files)
    /\ \A f \in DOMAIN outcome :
           Count(requested, f) = IF outcome[f] = "read_failed" THEN 0 ELSE 1
    /\ (pc = "Processing" /\ step \in {"scan", "save"}) => Count(requested, file_path) = 1
    /\ LoopOver => DOMAIN outcome = Range(relevant_files)

\* C7 witness: in the second run a file is requested again although its doc
\* file of the first run is on disk.
C7_Witness ==
    /\ run = 2
    /\ pc = "Processing" /\ step = "save"
    /\ OutputPath(file_path) \in DOMAIN disk
    /\ disk[OutputPath(file_path)] = ServiceReply(file_path, 1)
    /\ Count(requested, file_path) = 1
    /\ doc_text = ServiceReply(file_path, 2)

\* The dicts that hold the items of d in another insertion order.
Reorderings(d) == {[i \in 1..Len(d) |-> d[f[i]]] : f \in Permutations(1..Len(d))}

\* C8: the overview has exactly one section per key of file_docs, in sorted
\* key order whatever the insertion order; a section has a references list
\* exactly when file_references holds a non-empty list for its key; keys that
\* are only in file_references have no section.
C8_OverviewSections ==
    pc = "Returned" =>
        LET secs == OverviewSections(overview_text)
        IN  /\ Range(secs) = Keys(file_docs)
            /\ Len(secs) = Cardinality(Keys(file_docs))
            /\ \A i \in 1..(Len(secs) - 1) : StrLess(secs[i], secs[i + 1])
            /\ \A k \in Keys(file_docs) :
                   SectionHasReferences(overview_text, k)
                       <=> DictGet(file_references, k, <<>>) # <<>>
            /\ \A d \in Reorderings(file_docs) :
                   \A r \in Reorderings(file_references) :
                       generate_overview_document(d, r) = overview_text

\* C8 witness: the call returned for two documented keys inserted in
\* descending order, one with references and one without, and a key that is
\* only in file_references.
C8_Witness ==
    /\ pc = "Returned"
    /\ Len(file_docs) = 2
    /\ StrLess(file_docs[2][1], file_docs[1][1])
    /\ DictGet(file_references, file_docs[1][1], <<>>) # <<>>
    /\ DictGet(file_references, file_docs[2][1], <<>>) = <<>>
    /\ Keys(file_references) \ Keys(file_docs) # {}

Rank(p) ==
    CASE p = "Walking" -> 1
      [] p = "Filtering" -> 2
      [] p = "Processing" -> 3
      [] p = "EarlyExit" -> 3
      [] p = "Assembling" -> 4
      [] p = "Done" -> 5
      [] p = "Aborted" -> 5

\* One step of a run keeps the order Walking, Filtering, Processing(file_1) ..
\* Processing(file_n), Assembling, Done.
RunStepInOrder ==
    run' = run =>
        /\ Rank(pc') >= Rank(pc)
        /\ pc = "Walking" => pc' \in {"Walking", "Filtering"}
        /\ pc = "Filtering" => pc' \in {"Filtering", "Processing", "EarlyExit"}
        /\ pc = "Processing" =>
               \/ idx' = idx /\ pc' = "Processing"
               \/ /\ idx' = idx + 1
                  /\ pc' = IF idx = Len(relevant_files) THEN "Assembling" ELSE "Processing"
        /\ pc = "Assembling" => pc' \in {"Assembling", "Done", "Aborted"}
        /\ pc \in Terminal => pc' = pc
        /\ IsPrefix(attempted, attempted')

\* The files are attempted once each, one at a time, in the order of the list.
AttemptedInOrder ==
    /\ IsPrefix(attempted, relevant_files)
    /\ pc = "Processing" => idx \in 1..Len(relevant_files)
    /\ pc = "Processing" => Len(attempted) = (IF step = "read" THEN idx - 1 ELSE idx)
    /\ LoopOver => attempted = relevant_files
    /\ LoopOver => DOMAIN outcome = Range(relevant_files)

\* C9 as stated: the steps of a run stay in order, every file is attempted
\* once in list order whether the one before failed or not, and every run
\* ends in Done or in the early exit.
C9_RunReachesDoneOrEarlyExit ==
    /\ [][RunStepInOrder]_vars
    /\ []AttemptedInOrder
    /\ (pc = "Walking") ~> (pc \in {"Done", "EarlyExit"})

\* C9 amended: the steps of a run stay in order, every file is attempted
\* once in list order whether the one before failed or not, and every run
\* ends in Done, in the early exit, or aborted by the overview write raising.
C9_RunReachesEnd ==
    /\ [][RunStepInOrder]_vars
    /\ []AttemptedInOrder
    /\ (pc = "Walking") ~> (pc \in Terminal)

\* C9 witness: a run is done whose first file failed and whose second file
\* succeeded.
C9_Witness ==
    /\ pc = "Done"
    /\ Len(relevant_files) = 2
    /\ outcome[relevant_files[1]] # "ok"
    /\ outcome[relevant_files[2]] = "ok"
    /\ attempted = relevant_files

\* C10: the keys of file_references are keys of file_docs; a doc file is
\* written only for a file that is a key of both and whose read and request
\* succeeded; every doc file written in a run has a section in its overview.
C10_DocFileImpliesBothKeys ==
    /\ Keys(file_references) \subseteq Keys(file_docs)
    /\ \A i \in 1..Len(written) :
           /\ written[i][1] \in Keys(file_docs) \cap Keys(file_references)
           /\ written[i][1] \in DOMAIN outcome
           /\ outcome[written[i][1]] = "ok"
           /\ Count(requested, written[i][1]) = 1
    /\ pc = "Done" =>
           \A i \in 1..Len(written) :
               Count(OverviewSections(disk[OverviewPath]), written[i][1]) = 1

\* C10 witness: a run is done that wrote a doc file and skipped a file whose
\* request failed.
C10_Witness ==
    /\ pc = "Done"
    /\ written # <<>>
    /\ \E f \in DOMAIN outcome : outcome[f] \in {"read_failed", "request_failed"}

====
